---- MODULE Spec2Model ----
(***************************************************************************)
(* Model of scraper_with_translation.py: the translator with its retry     *)
(* loop (translate_text_with_openai) and the two-level scrape with the     *)
(* per-entry handler (scrape_and_translate_papers).                        *)
(*                                                                         *)
(* The program is sequential.  Every statement that talks to the outside   *)
(* (HTTP request, endpoint call, file open/write/close) is one step whose  *)
(* outcome the environment chooses.  The environment's nominal outcome is  *)
(* free; every other outcome is a deviation, and the environment deviates  *)
(* in at most MaxDeviations iterations of the entry loop (the part of the  *)
(* run before the loop counts as one iteration).                           *)
(***************************************************************************)
EXTENDS Integers, Sequences, FiniteSets, TLC

\* ---- bounds of the model ----
MaxSmallPage == 3          \* listing pages of 0..MaxSmallPage article nodes
MaxArticles == 11          \* article nodes of the listing page that exceeds the cap
MaxDeviations == 1         \* loop iterations (or run phases) in which the environment deviates
FirstYear == 2000          \* the current date is drawn from the days of
LastYear == 2027           \* the years FirstYear..LastYear

\* ---- program constants ----
max_retries == 3
initial_delay == 2
num_papers_to_scrape == 10

VARIABLES
  pc,               \* position of scrape_and_translate_papers
  api_key,          \* OPENAI_API_KEY present in the environment
  openai_client,    \* "unset" | "client" | "None"
  page_nodes,       \* number of article nodes the listing page holds
  paper_articles,   \* the sliced list of article nodes (document positions)
  i,                \* loop index of enumerate(paper_articles), 0-based
  fileState,        \* "unopened" | "open" | "closed"
  out,              \* chunks written to the output file, in order
  console,          \* outcome messages printed, in order
  exc,              \* exception in flight in the orchestrator ("" = none)
  abstract,         \* abstract of the current entry
  detailFetches,    \* detail requests issued in this run
  invocations,      \* calls of translate_text_with_openai in this run
  listingFetches,   \* listing requests issued in this run
  thrown,           \* ranks whose per-entry try body raised an exception
  noAbstract,       \* ranks whose detail page has no abstract node
  today,            \* the date datetime.now() gives: [y, m, d]
  week_info,        \* <<year, week>> of get_previous_week_info, <<0, 0>> before
  deviations,       \* iterations in which the environment has deviated
  dirty,            \* the environment has deviated in the current iteration
  apiConnErrAttr,   \* OpenAI.APIConnectionError in the installed library:
                    \* "unresolved" until first evaluated, then "present" | "absent"
  tpc,              \* position of translate_text_with_openai
  t_client,         \* its argument client
  t_text,           \* its argument text
  attempt,          \* loop variable of range(max_retries)
  delay,            \* current backoff delay
  sleeps,           \* time.sleep arguments of this invocation, in order
  calls,            \* endpoint calls of this invocation
  outcomes,         \* what the endpoint did on each call of this invocation
  t_result,         \* value returned
  t_exc             \* exception raised out of the function ("" = none)

ovars == <<pc, api_key, openai_client, page_nodes, paper_articles, i, fileState,
           out, console, exc, abstract, detailFetches, invocations,
           listingFetches, thrown, today, week_info, noAbstract>>
tvars == <<tpc, t_client, t_text, attempt, delay, sleeps, calls, outcomes,
           t_result, t_exc>>
dev == <<deviations, dirty>>
vars == <<ovars, tvars, dev, apiConnErrAttr>>

\* ---- strings: sequences of characters ----
SP == " "
IsBlankChar(c) == c = SP

RECURSIVE LStrip(_)
LStrip(s) == IF s # <<>> /\ IsBlankChar(Head(s)) THEN LStrip(Tail(s)) ELSE s

RECURSIVE RStrip(_)
RStrip(s) ==
  IF s # <<>> /\ IsBlankChar(s[Len(s)]) THEN RStrip(SubSeq(s, 1, Len(s) - 1)) ELSE s

\* str.strip()
Strip(s) == RStrip(LStrip(s))

\* Faulty variant: only the empty string counts as nothing to translate.
NothingToTranslate_EmptyOnly(text) == text = <<>>

\* `not text or not text.strip()`
NothingToTranslate(text) == text = <<>> \/ Strip(text) = <<>>

Texts == { <<>>, <<SP>>, <<SP, SP>>, <<"a">>, <<SP, "a">>, <<"a", SP, "b">> }
NominalAbstract == <<"a">>
Contents == { <<SP, "k", SP>>, <<"k">> }
NominalContent == <<SP, "k", SP>>

\* ---- return values of the translator ----
NoResult == [kind |-> "none", text |-> <<>>, err |-> ""]
MsgNothing == [kind |-> "nothing_to_translate", text |-> <<>>, err |-> ""]
MsgNoClient == [kind |-> "client_not_configured", text |-> <<>>, err |-> ""]
MsgUnexpected(e) == [kind |-> "unexpected_error", text |-> <<>>, err |-> e]
MsgExhausted == [kind |-> "network_failed_after_retries", text |-> <<>>, err |-> ""]
Translation(s) == [kind |-> "translation", text |-> s, err |-> ""]

\* ---- behaviours of the translation endpoint on one call ----
ConnErrors == {"requests.ConnectionError", "openai.APIConnectionError"}
OtherErrors == {"openai.AuthenticationError"}
Ok(c) == [kind |-> "ok", content |-> c, err |-> ""]
OkNone == [kind |-> "ok_none", content |-> <<>>, err |-> ""]
Raises(e) == [kind |-> "exc", content |-> <<>>, err |-> e]
EndpointOutcomes ==
  {Ok(c) : c \in Contents} \cup {OkNone} \cup {Raises(e) : e \in ConnErrors \cup OtherErrors}
NominalOutcome == Ok(NominalContent)

\* An exception raised in the try body of one attempt, "" if none:
\* the create call raises, or content is None and .strip() raises.
BodyException(o) ==
  IF o.kind = "exc" THEN o.err
  ELSE IF o.kind = "ok_none" THEN "AttributeError" ELSE ""

\* `except (requests.exceptions.ConnectionError, OpenAI.APIConnectionError)`
IsConnectivityClass(e) == e \in ConnErrors

\* The environment may deviate from its nominal behaviour.
MayDeviate == dirty \/ deviations < MaxDeviations
Deviate ==
  /\ MayDeviate
  /\ deviations' = IF dirty THEN deviations ELSE deviations + 1
  /\ dirty' = TRUE

\* ---- get_previous_week_info: dates as datetime keeps them ----

IsLeap(y) == y % 4 = 0 /\ (y % 100 # 0 \/ y % 400 = 0)
DaysInMonth(y, m) ==
  IF m = 2 THEN (IF IsLeap(y) THEN 29 ELSE 28)
  ELSE IF m \in {4, 6, 9, 11} THEN 30 ELSE 31
\* days before January 1st of year y, counted from 0001-01-01 = day 1
DaysBeforeYear(y) == (y - 1) * 365 + (y - 1) \div 4 - (y - 1) \div 100 + (y - 1) \div 400
RECURSIVE DaysBeforeMonth(_, _)
DaysBeforeMonth(y, m) ==
  IF m = 1 THEN 0 ELSE DaysBeforeMonth(y, m - 1) + DaysInMonth(y, m - 1)
\* the proleptic Gregorian ordinal of a date
Ymd2Ord(dt) == DaysBeforeYear(dt.y) + DaysBeforeMonth(dt.y, dt.m) + dt.d
\* the date of an ordinal
Ord2Ymd(n) ==
  LET y == CHOOSE yy \in (FirstYear - 1)..(LastYear + 1) :
             DaysBeforeYear(yy) < n /\ n <= DaysBeforeYear(yy + 1)
      r == n - DaysBeforeYear(y)
      m == CHOOSE mm \in 1..12 :
             DaysBeforeMonth(y, mm) < r /\ r <= DaysBeforeMonth(y, mm) + DaysInMonth(y, mm)
  IN [y |-> y, m |-> m, d |-> r - DaysBeforeMonth(y, m)]

\* `today - timedelta(days=k)`
MinusDays(dt, k) == Ord2Ymd(Ymd2Ord(dt) - k)

\* the ordinal of the Monday of ISO week 1 of year y
IsoWeek1Monday(y) ==
  LET firstday == DaysBeforeYear(y) + 1
      firstweekday == (firstday + 6) % 7
      week1monday == firstday - firstweekday
  IN IF firstweekday > 3 THEN week1monday + 7 ELSE week1monday

\* date.isocalendar(): <<ISO year, ISO week, ISO weekday>>
IsoCalendar(dt) ==
  LET n == Ymd2Ord(dt)
      w0 == n - IsoWeek1Monday(dt.y)
  IN IF w0 < 0
       THEN LET w == n - IsoWeek1Monday(dt.y - 1)
            IN <<dt.y - 1, (w \div 7) + 1, (w % 7) + 1>>
       ELSE IF w0 \div 7 >= 52 /\ n >= IsoWeek1Monday(dt.y + 1)
         THEN <<dt.y + 1, 1, (w0 % 7) + 1>>
         ELSE <<dt.y, (w0 \div 7) + 1, (w0 % 7) + 1>>

\* Faulty variant: the seven days are not subtracted.
get_previous_week_info_NoShift(now) ==
  LET c == IsoCalendar(now) IN <<c[1], c[2]>>

get_previous_week_info(now) ==
  LET last_week_date == MinusDays(now, 7)
      c == IsoCalendar(last_week_date)
  IN <<c[1], c[2]>>

\* the days of the years FirstYear..LastYear
Dates ==
  {[y |-> yy, m |-> mm, d |-> dd] : yy \in FirstYear..LastYear, mm \in 1..12, dd \in 1..31}
Days == {dt \in Dates : dt.d <= DaysInMonth(dt.y, dt.m)}
\* the date of the modelled runs
RunDate == [y |-> LastYear, m |-> 1, d |-> 4]

\* ---- translate_text_with_openai ----

\* What the handlers of the try statement do with an exception e raised in the
\* body: the first except clause evaluates its tuple of classes, which raises
\* AttributeError when OpenAI has no attribute APIConnectionError; otherwise a
\* connectivity-class e is retried and any other e is returned as a message.
AfterException(attr, e) ==
  IF attr = "absent" THEN "raise"
  ELSE IF IsConnectivityClass(e) THEN "retry"
  ELSE "return"

\* The outcomes of looking up OpenAI.APIConnectionError.
Resolve(attr) == IF attr = "unresolved" THEN {"present", "absent"} ELSE {attr}

\* `delay *= 2`
NextDelay(d) == d * 2

\* `for attempt in range(max_retries)`: is there another iteration after `a`
LoopContinues(a) == a + 1 < max_retries

\* The early returns before the loop.
T_Check ==
  /\ tpc = "check"
  /\ IF NothingToTranslate(t_text)
       THEN /\ tpc' = "returned"
            /\ t_result' = MsgNothing
            /\ UNCHANGED <<attempt, delay>>
       ELSE IF t_client # "client"
         THEN /\ tpc' = "returned"
              /\ t_result' = MsgNoClient
              /\ UNCHANGED <<attempt, delay>>
         ELSE /\ tpc' = "call"
              /\ attempt' = 0
              /\ delay' = initial_delay
              /\ UNCHANGED t_result
  /\ UNCHANGED <<t_client, t_text, sleeps, calls, outcomes, t_exc>>
  /\ UNCHANGED <<ovars, dev, apiConnErrAttr>>

\* One attempt: the endpoint call, the return on success, and the choice of
\* the except clause on failure.
T_Call ==
  /\ tpc = "call"
  /\ \E o \in EndpointOutcomes :
       /\ IF o = NominalOutcome THEN UNCHANGED dev ELSE Deviate
       /\ calls' = calls + 1
       /\ outcomes' = Append(outcomes, o)
       /\ LET e == BodyException(o) IN
            IF e = ""
              THEN /\ tpc' = "returned"
                   /\ t_result' = Translation(Strip(o.content))
                   /\ UNCHANGED <<t_exc, apiConnErrAttr>>
              ELSE \E a \in Resolve(apiConnErrAttr) :
                     /\ apiConnErrAttr' = a
                     /\ CASE AfterException(a, e) = "raise" ->
                               /\ tpc' = "raised"
                               /\ t_exc' = "AttributeError"
                               /\ UNCHANGED t_result
                          [] AfterException(a, e) = "retry" ->
                               /\ tpc' = "sleep"
                               /\ UNCHANGED <<t_result, t_exc>>
                          [] OTHER ->
                               /\ tpc' = "returned"
                               /\ t_result' = MsgUnexpected(e)
                               /\ UNCHANGED t_exc
  /\ UNCHANGED <<t_client, t_text, attempt, delay, sleeps>>
  /\ UNCHANGED ovars

\* The connectivity handler: sleep, double the delay, next iteration or loop exit.
T_Sleep ==
  /\ tpc = "sleep"
  /\ sleeps' = Append(sleeps, delay)
  /\ delay' = NextDelay(delay)
  /\ attempt' = attempt + 1
  /\ tpc' = IF LoopContinues(attempt) THEN "call" ELSE "exhausted"
  /\ UNCHANGED <<t_client, t_text, calls, outcomes, t_result, t_exc>>
  /\ UNCHANGED <<ovars, dev, apiConnErrAttr>>

\* The return after the loop.
T_Exhausted ==
  /\ tpc = "exhausted"
  /\ tpc' = "returned"
  /\ t_result' = MsgExhausted
  /\ UNCHANGED <<t_client, t_text, attempt, delay, sleeps, calls, outcomes, t_exc>>
  /\ UNCHANGED <<ovars, dev, apiConnErrAttr>>

NextTranslate == T_Check \/ T_Call \/ T_Sleep \/ T_Exhausted

\* The translator called on its own with any client and any text.
InitTranslate ==
  /\ pc = "unit"
  /\ api_key \in BOOLEAN
  /\ openai_client = "unset"
  /\ page_nodes = 0
  /\ paper_articles = <<>>
  /\ i = 0
  /\ fileState = "unopened"
  /\ out = <<>>
  /\ console = <<>>
  /\ exc = ""
  /\ abstract = <<>>
  /\ detailFetches = 0
  /\ invocations = 1
  /\ listingFetches = 0
  /\ thrown = {}
  /\ noAbstract = {}
  /\ today = RunDate
  /\ week_info = <<0, 0>>
  /\ deviations = 0
  /\ dirty = FALSE
  /\ apiConnErrAttr = "unresolved"
  /\ tpc = "check"
  /\ t_client = IF api_key THEN "client" ELSE "None"
  /\ t_text \in Texts
  /\ attempt = 0
  /\ delay = 0
  /\ sleeps = <<>>
  /\ calls = 0
  /\ outcomes = <<>>
  /\ t_result = NoResult
  /\ t_exc = ""

SpecTranslate == InitTranslate /\ [][NextTranslate]_vars

\* ---- scrape_and_translate_papers ----

\* One chunk of the output file: the f.write that produced it, the 1-based
\* rank of the iteration that wrote it (0 for the header) and what it carries.
Chunk(k, r, n, t, res, e) ==
  [kind |-> k, rank |-> r, node |-> n, text |-> t, res |-> res, err |-> e]
HeaderChunk(k) == Chunk(k, 0, 0, <<>>, NoResult, "")
TitleChunk(r, n) == Chunk("title", r, n, <<>>, NoResult, "")
LinkChunk(r, n) == Chunk("link", r, n, <<>>, NoResult, "")
AbsHdrChunk(r) == Chunk("abstract_header", r, 0, <<>>, NoResult, "")
AbsChunk(r, t) == Chunk("abstract", r, 0, t, NoResult, "")
KoHdrChunk(r) == Chunk("korean_header", r, 0, <<>>, NoResult, "")
KoChunk(r, res) == Chunk("korean", r, 0, <<>>, res, "")
NotFoundChunk(r) == Chunk("abstract_not_found", r, 0, <<>>, NoResult, "")
\* Faulty variant: the failure block carries the loop index, not the rank.
FailureChunk_ZeroBased(r, e) == Chunk("failure", r - 1, 0, <<>>, NoResult, e)
FailureChunk(r, e) == Chunk("failure", r, 0, <<>>, NoResult, e)

\* The listing pages: the small ones, and one of more than
\* num_papers_to_scrape article nodes.
PageSizes == (0..MaxSmallPage) \cup {MaxArticles}

\* Faulty variant: the slice is lost and every node of the page is kept.
Slice_NoCap(m) == [k \in 1..m |-> k]

\* `xpath(...)[:num_papers_to_scrape]` on a page of m article nodes; a node is
\* its position in the document.
Slice(m) == [k \in 1..(IF m < num_papers_to_scrape THEN m ELSE num_papers_to_scrape) |-> k]

\* `i + 1`, the rank written for the current iteration
Rank == i + 1
\* Faulty variant: the list is walked from its end.
Article_Reversed == paper_articles[Len(paper_articles) - i]

\* `article`, the node of the current iteration
Article == paper_articles[i + 1]

\* f.write(chunk): the chunk is appended, or the write raises OSError.
Write(chunk, okpc, failpc) ==
  \/ /\ out' = Append(out, chunk)
     /\ pc' = okpc
     /\ UNCHANGED <<exc, dev, thrown>>
  \/ /\ Deviate
     /\ exc' = "OSError"
     /\ pc' = failpc
     /\ thrown' = IF failpc = "handler" THEN thrown \cup {Rank} ELSE thrown
     /\ UNCHANGED out

\* Faulty variant: no per-entry try; the exception reaches the top-level handlers.
Throw_Unhandled(e) ==
  /\ Deviate
  /\ exc' = e
  /\ pc' = "top_except"
  /\ thrown' = thrown \cup {Rank}

\* An exception raised in the per-entry try body.
Throw(e) ==
  /\ Deviate
  /\ exc' = e
  /\ pc' = "handler"
  /\ thrown' = thrown \cup {Rank}

\* Faulty variant: the generic clause comes first and takes every exception.
TopLevelMessage_GenericFirst(e) == "unknown_error"

\* Which top-level except clause takes e, and what it prints.
TopLevelMessage(e) ==
  IF e = "RequestException" THEN "fetch_failed" ELSE "unknown_error"

\* The exception classes of the program's steps; all derive from Exception.
ExceptionClasses ==
  {"RequestException", "ParserError", "OSError", "IndexError", "ValueError",
   "AttributeError"}

\* Faulty variant: the generic clause is missing.
TopLevelCatches_RequestOnly(e) == e = "RequestException"

\* Is e taken by one of the two top-level except clauses
TopLevelCatches(e) == e = "RequestException" \/ e \in ExceptionClasses

\* Faulty variant: the early return is lost and the run goes on without a client.
AfterSetup_NoReturn(client) == "fetch_listing"

\* `if not openai_client: return`
AfterSetup(client) == IF client = "client" THEN "fetch_listing" ELSE "done"

\* setup_api (which prints the error for a missing key), the early return,
\* and the week of the listing.
Setup ==
  /\ pc = "setup"
  /\ openai_client' = IF api_key THEN "client" ELSE "None"
  /\ console' = IF api_key THEN console ELSE Append(console, "missing_credential")
  /\ pc' = AfterSetup(openai_client')
  /\ week_info' = IF pc' = "done" THEN week_info ELSE get_previous_week_info(today)
  /\ UNCHANGED <<noAbstract, today, api_key, page_nodes, paper_articles, i, fileState, out, exc,
                 abstract, detailFetches, invocations, listingFetches, thrown>>
  /\ UNCHANGED <<tvars, dev, apiConnErrAttr>>

\* Faulty variant: the empty-listing check is lost.
AfterListing_NoEmptyCheck(articles) == "open_file"

\* `if not paper_articles: ... return`
AfterListing(articles) == IF articles = <<>> THEN "done" ELSE "open_file"

\* The listing request, the parse, the slice and the empty-listing return.
FetchListing ==
  /\ pc = "fetch_listing"
  /\ listingFetches' = listingFetches + 1
  /\ \/ \E e \in {"RequestException", "ParserError"} :
          /\ exc' = e
          /\ pc' = "top_except"
          /\ Deviate
          /\ UNCHANGED <<page_nodes, paper_articles, console>>
     \/ \E m \in PageSizes :
          /\ page_nodes' = m
          /\ paper_articles' = Slice(m)
          /\ pc' = AfterListing(paper_articles')
          /\ console' = IF pc' = "done" THEN Append(console, "no_papers") ELSE console
          /\ UNCHANGED <<exc, dev>>
  /\ UNCHANGED <<noAbstract, today, week_info, api_key, openai_client, i, fileState, out, abstract,
                 detailFetches, invocations, thrown>>
  /\ UNCHANGED <<tvars, apiConnErrAttr>>

\* open(output_filename, "w")
OpenFile ==
  /\ pc = "open_file"
  /\ \/ /\ fileState' = "open"
        /\ out' = <<>>
        /\ pc' = "write_header1"
        /\ UNCHANGED <<exc, dev>>
     \/ /\ Deviate
        /\ exc' = "OSError"
        /\ pc' = "top_except"
        /\ UNCHANGED <<fileState, out>>
  /\ UNCHANGED <<noAbstract, today, week_info, api_key, openai_client, page_nodes, paper_articles, i, console,
                 abstract, detailFetches, invocations, listingFetches, thrown>>
  /\ UNCHANGED <<tvars, apiConnErrAttr>>

WriteFrame ==
  /\ UNCHANGED <<noAbstract, today, week_info, api_key, openai_client, page_nodes, paper_articles, fileState,
                 console, abstract, detailFetches, invocations, listingFetches>>
  /\ UNCHANGED <<tvars, apiConnErrAttr>>

WriteHeader1 ==
  /\ pc = "write_header1"
  /\ Write(HeaderChunk("header"), "write_header2", "top_except")
  /\ UNCHANGED i
  /\ WriteFrame

WriteHeader2 ==
  /\ pc = "write_header2"
  /\ Write(HeaderChunk("source"), "loop", "top_except")
  /\ UNCHANGED i
  /\ WriteFrame

\* Faulty variant: the loop ends one article early.
Loop_OffByOne ==
  /\ pc = "loop"
  /\ pc' = IF i + 1 < Len(paper_articles) THEN "h3" ELSE "close"
  /\ dirty' = FALSE
  /\ UNCHANGED <<noAbstract, today, week_info, api_key, openai_client, page_nodes, paper_articles, i, fileState,
                 out, console, exc, abstract, detailFetches, invocations,
                 listingFetches, thrown>>
  /\ UNCHANGED <<tvars, deviations, apiConnErrAttr>>

\* The for statement: the next article, or the end of the loop.
Loop ==
  /\ pc = "loop"
  /\ pc' = IF i < Len(paper_articles) THEN "h3" ELSE "close"
  /\ dirty' = FALSE
  /\ UNCHANGED <<noAbstract, today, week_info, api_key, openai_client, page_nodes, paper_articles, i, fileState,
                 out, console, exc, abstract, detailFetches, invocations,
                 listingFetches, thrown>>
  /\ UNCHANGED <<tvars, deviations, apiConnErrAttr>>

\* The heading, its link and its title: IndexError without an h3, ValueError
\* without a link or a title.
ParseArticle ==
  /\ pc = "h3"
  /\ \/ pc' = "write_title" /\ UNCHANGED <<exc, dev, thrown>>
     \/ \E e \in {"IndexError", "ValueError"} : Throw(e)
  /\ UNCHANGED <<noAbstract, today, week_info, api_key, openai_client, page_nodes, paper_articles, i, fileState,
                 out, console, abstract, detailFetches, invocations, listingFetches>>
  /\ UNCHANGED <<tvars, apiConnErrAttr>>

WriteTitle ==
  /\ pc = "write_title"
  /\ Write(TitleChunk(Rank, Article), "write_link", "handler")
  /\ UNCHANGED i
  /\ WriteFrame

WriteLink ==
  /\ pc = "write_link"
  /\ Write(LinkChunk(Rank, Article), "fetch_detail", "handler")
  /\ UNCHANGED i
  /\ WriteFrame

\* The detail request, the parse and the abstract lookup.
FetchDetail ==
  /\ pc = "fetch_detail"
  /\ detailFetches' = detailFetches + 1
  /\ \/ /\ abstract' = NominalAbstract
        /\ pc' = "write_abstract_header"
        /\ UNCHANGED <<exc, dev, thrown>>
     \/ /\ Deviate
        /\ abstract' = <<>>
        /\ pc' \in {"write_abstract_header", "write_not_found"}
        /\ UNCHANGED <<exc, thrown>>
     \/ /\ Throw("RequestException")
        /\ UNCHANGED abstract
  /\ noAbstract' = IF pc' = "write_not_found" THEN noAbstract \cup {Rank} ELSE noAbstract
  /\ UNCHANGED <<today, week_info, api_key, openai_client, page_nodes, paper_articles, i, fileState,
                 out, console, invocations, listingFetches>>
  /\ UNCHANGED <<tvars, apiConnErrAttr>>

WriteAbstractHeader ==
  /\ pc = "write_abstract_header"
  /\ Write(AbsHdrChunk(Rank), "write_abstract", "handler")
  /\ UNCHANGED i
  /\ WriteFrame

WriteAbstract ==
  /\ pc = "write_abstract"
  /\ Write(AbsChunk(Rank, abstract), "call_translate", "handler")
  /\ UNCHANGED i
  /\ WriteFrame

\* The call translate_text_with_openai(openai_client, abstract).
CallTranslate ==
  /\ pc = "call_translate"
  /\ tpc = "idle"
  /\ pc' = "in_translate"
  /\ invocations' = invocations + 1
  /\ tpc' = "check"
  /\ t_client' = openai_client
  /\ t_text' = abstract
  /\ attempt' = 0
  /\ delay' = 0
  /\ sleeps' = <<>>
  /\ calls' = 0
  /\ outcomes' = <<>>
  /\ t_result' = NoResult
  /\ t_exc' = ""
  /\ UNCHANGED <<noAbstract, today, week_info, api_key, openai_client, page_nodes, paper_articles, i, fileState,
                 out, console, exc, abstract, detailFetches, listingFetches, thrown>>
  /\ UNCHANGED <<dev, apiConnErrAttr>>

\* The call returns its value, or its exception reaches the per-entry try.
TranslateReturn ==
  /\ pc = "in_translate"
  /\ tpc \in {"returned", "raised"}
  /\ tpc' = "idle"
  /\ IF tpc = "returned"
       THEN pc' = "write_korean_header" /\ UNCHANGED <<exc, thrown>>
       ELSE pc' = "handler" /\ exc' = t_exc /\ thrown' = thrown \cup {Rank}
  \* the frame of the call is gone; only the returned value stays
  /\ t_client' = "unset"
  /\ t_text' = <<>>
  /\ attempt' = 0
  /\ delay' = 0
  /\ sleeps' = <<>>
  /\ calls' = 0
  /\ outcomes' = <<>>
  /\ t_exc' = ""
  /\ UNCHANGED t_result
  /\ UNCHANGED <<noAbstract, today, week_info, api_key, openai_client, page_nodes, paper_articles, i, fileState,
                 out, console, abstract, detailFetches, invocations, listingFetches>>
  /\ UNCHANGED <<dev, apiConnErrAttr>>

WriteKoreanHeader ==
  /\ pc = "write_korean_header"
  /\ Write(KoHdrChunk(Rank), "write_korean", "handler")
  /\ UNCHANGED i
  /\ WriteFrame

\* The last write of the try body; the iteration ends when it succeeds.
WriteKorean ==
  /\ pc = "write_korean"
  /\ Write(KoChunk(Rank, t_result), "loop", "handler")
  /\ i' = IF pc' = "loop" THEN i + 1 ELSE i
  /\ WriteFrame

WriteNotFound ==
  /\ pc = "write_not_found"
  /\ Write(NotFoundChunk(Rank), "loop", "handler")
  /\ i' = IF pc' = "loop" THEN i + 1 ELSE i
  /\ WriteFrame

\* `except Exception as e` of the per-entry try: the failure block is written
\* and the iteration ends; an exception of this write leaves the loop.
Handler ==
  /\ pc = "handler"
  /\ \/ /\ out' = Append(out, FailureChunk(Rank, exc))
        /\ exc' = ""
        /\ pc' = "loop"
        /\ i' = i + 1
        /\ UNCHANGED dev
     \/ /\ Deviate
        /\ exc' = "OSError"
        /\ pc' = "top_except"
        /\ UNCHANGED <<out, i>>
  /\ UNCHANGED thrown
  /\ WriteFrame

\* The end of the with block: the file is flushed and closed.
Close ==
  /\ pc = "close"
  /\ fileState' = "closed"
  /\ \/ pc' = "success" /\ UNCHANGED <<exc, dev>>
     \/ /\ Deviate
        /\ exc' = "OSError"
        /\ pc' = "top_except"
  /\ UNCHANGED <<noAbstract, today, week_info, api_key, openai_client, page_nodes, paper_articles, i, out,
                 console, abstract, detailFetches, invocations, listingFetches, thrown>>
  /\ UNCHANGED <<tvars, apiConnErrAttr>>

\* The final print of the try body.
Success ==
  /\ pc = "success"
  /\ console' = Append(console, "success")
  /\ pc' = "done"
  /\ UNCHANGED <<noAbstract, today, week_info, api_key, openai_client, page_nodes, paper_articles, i, fileState,
                 out, exc, abstract, detailFetches, invocations,
                 listingFetches, thrown>>
  /\ UNCHANGED <<tvars, dev, apiConnErrAttr>>

\* The two top-level except clauses; leaving the with block closes the file.
\* An exception that no clause takes leaves the function.
TopExcept ==
  /\ pc = "top_except"
  /\ IF TopLevelCatches(exc)
       THEN /\ console' = Append(console, TopLevelMessage(exc))
            /\ pc' = "done"
       ELSE /\ pc' = "propagated"
            /\ UNCHANGED console
  /\ fileState' = IF fileState = "open" THEN "closed" ELSE fileState
  /\ UNCHANGED <<noAbstract, today, week_info, api_key, openai_client, page_nodes, paper_articles, i, out, exc,
                 abstract, detailFetches, invocations, listingFetches, thrown>>
  /\ UNCHANGED <<tvars, dev, apiConnErrAttr>>

\* The state when scrape_and_translate_papers is entered.
Init ==
  /\ pc = "setup"
  /\ api_key \in BOOLEAN
  /\ openai_client = "unset"
  /\ page_nodes = 0
  /\ paper_articles = <<>>
  /\ i = 0
  /\ fileState = "unopened"
  /\ out = <<>>
  /\ console = <<>>
  /\ exc = ""
  /\ abstract = <<>>
  /\ detailFetches = 0
  /\ invocations = 0
  /\ listingFetches = 0
  /\ thrown = {}
  /\ noAbstract = {}
  /\ today = RunDate
  /\ week_info = <<0, 0>>
  /\ deviations = 0
  /\ dirty = FALSE
  /\ apiConnErrAttr = "unresolved"
  /\ tpc = "idle"
  /\ t_client = "unset"
  /\ t_text = <<>>
  /\ attempt = 0
  /\ delay = 0
  /\ sleeps = <<>>
  /\ calls = 0
  /\ outcomes = <<>>
  /\ t_result = NoResult
  /\ t_exc = ""

Next ==
  \/ Setup \/ FetchListing \/ OpenFile \/ WriteHeader1 \/ WriteHeader2
  \/ Loop \/ ParseArticle \/ WriteTitle \/ WriteLink \/ FetchDetail
  \/ WriteAbstractHeader \/ WriteAbstract \/ CallTranslate
  \/ T_Check \/ T_Call \/ T_Sleep \/ T_Exhausted
  \/ TranslateReturn \/ WriteKoreanHeader \/ WriteKorean \/ WriteNotFound
  \/ Handler \/ Close \/ Success \/ TopExcept

Spec == Init /\ [][Next]_vars

\* get_previous_week_info called on its own on any day.
GetPreviousWeekInfo ==
  /\ pc = "week"
  /\ week_info' = get_previous_week_info(today)
  /\ pc' = "week_done"
  /\ UNCHANGED <<noAbstract, today, api_key, openai_client, page_nodes, paper_articles, i,
                 fileState, out, console, exc, abstract, detailFetches,
                 invocations, listingFetches, thrown>>
  /\ UNCHANGED <<tvars, dev, apiConnErrAttr>>

InitWeek ==
  /\ pc = "week"
  /\ today \in Days
  /\ week_info = <<0, 0>>
  /\ api_key = TRUE
  /\ openai_client = "unset"
  /\ page_nodes = 0
  /\ paper_articles = <<>>
  /\ i = 0
  /\ fileState = "unopened"
  /\ out = <<>>
  /\ console = <<>>
  /\ exc = ""
  /\ abstract = <<>>
  /\ detailFetches = 0
  /\ invocations = 0
  /\ listingFetches = 0
  /\ thrown = {}
  /\ noAbstract = {}
  /\ deviations = 0
  /\ dirty = FALSE
  /\ apiConnErrAttr = "unresolved"
  /\ tpc = "idle"
  /\ t_client = "unset"
  /\ t_text = <<>>
  /\ attempt = 0
  /\ delay = 0
  /\ sleeps = <<>>
  /\ calls = 0
  /\ outcomes = <<>>
  /\ t_result = NoResult
  /\ t_exc = ""

NextWeek == GetPreviousWeekInfo

SpecWeek == InitWeek /\ [][NextWeek]_vars

\* ================= properties of translate_text_with_openai =================

\* The invocation has ended: by a return or by an exception leaving it.
Terminated == tpc \in {"returned", "raised"}

Last(q) == q[Len(q)]
IsConnFailure(o) == o.kind = "exc" /\ IsConnectivityClass(o.err)
IsOtherFailure(o) == o.kind = "exc" /\ o.err \in OtherErrors
\* The first n sleeps of the backoff: 2, 4, 8, ...
Backoff(n) == [k \in 1..n |-> initial_delay * 2^(k - 1)]

\* C1: translate_text_with_openai never ends by an exception leaving it: for
\* every client, text and endpoint behaviour the invocation ends by returning
\* a string.
C1_NeverRaises == tpc # "raised"

\* C2: k < 3 leading connectivity failures followed by a success return the
\* trimmed translation after k + 1 calls and sleeps of 2, 4, ... seconds: a
\* connectivity failure on attempt 1 or 2 never ends the invocation, and an
\* invocation whose calls were k connectivity failures and then a success has
\* returned Strip(content) with calls = k + 1 and sleeps = <<2, 4, ...>>.
C2_RetryThenSuccess ==
  /\ (Terminated /\ outcomes # <<>> /\ IsConnFailure(Last(outcomes)))
       => Len(outcomes) = max_retries
  /\ (Terminated /\ outcomes # <<>> /\ Last(outcomes).kind = "ok"
        /\ \A k \in 1..(Len(outcomes) - 1) : IsConnFailure(outcomes[k]))
       => /\ tpc = "returned"
          /\ t_result = Translation(Strip(Last(outcomes).content))
          /\ calls = Len(outcomes)
          /\ sleeps = Backoff(Len(outcomes) - 1)

\* C3: when an endpoint call raises an exception that is not connectivity
\* class, the invocation has returned the message embedding that error, with
\* no call and no sleep after the exception.
C3_OtherErrorReturnsAtOnce ==
  (outcomes # <<>> /\ IsOtherFailure(Last(outcomes)))
    => /\ tpc = "returned"
       /\ t_result = MsgUnexpected(Last(outcomes).err)
       /\ calls = Len(outcomes)
       /\ Len(sleeps) = Len(outcomes) - 1

\* C4: at most 3 endpoint calls per invocation, and an invocation all of whose
\* calls failed with connectivity-class errors ends only after the 3rd, by
\* returning the fixed network-failure message.
C4_AtMostThreeThenFixedMessage ==
  /\ calls <= max_retries
  /\ (Terminated /\ outcomes # <<>>
        /\ \A k \in 1..Len(outcomes) : IsConnFailure(outcomes[k]))
       => /\ tpc = "returned"
          /\ calls = max_retries
          /\ t_result = MsgExhausted

\* ================= properties of scrape_and_translate_papers =================

Min(a, b) == IF a < b THEN a ELSE b
\* The number of entries of the run.
N == Len(paper_articles)
\* The ranks that have a failure block in the file.
FailedRanks == {out[j].rank : j \in {k \in 1..Len(out) : out[k].kind = "failure"}}
\* The ranks that have some block in the file (0: the header).
Ranks == {out[j].rank : j \in 1..Len(out)}
Succeeded == pc = "done" /\ console = <<"success">>

\* C5 as stated: whenever a per-entry step of entry r threw, the finished run
\* has recorded r as failed and holds every later entry r+1..n.
C5_Original ==
  pc = "done" =>
    \A r \in thrown : r \in FailedRanks /\ ((r + 1)..N) \subseteq Ranks

\* C5 amended: an exception of a per-entry step is taken by the per-entry
\* handler, which writes the failure block of that rank and goes on with the
\* next entry; only a failed write of the failure block itself (OSError)
\* leaves the loop.  So every entry that threw is recorded as failed unless its
\* handler is still to run or the handler's own write failed; every finished
\* iteration has a block; a run that has opened the file ends before the last
\* entry only on an OSError; and a successful run holds every entry 1..n.
C5_FailureIsolation ==
  /\ \A r \in thrown \ FailedRanks :
       \/ r = Rank /\ pc = "handler"
       \/ r = Rank /\ pc \in {"top_except", "done"} /\ exc = "OSError"
  /\ (1..i) \subseteq Ranks
  /\ (pc = "done" /\ i < N) => exc = "OSError"
  /\ Succeeded => (i = N /\ (1..N) \subseteq Ranks)

\* C5 witness: a detail fetch threw for an entry that is not the last, and the
\* run went on to process the later entries and succeeded.
C5_Witness ==
  /\ Succeeded
  /\ \E j \in 1..Len(out) :
       /\ out[j].kind = "failure"
       /\ out[j].err = "RequestException"
       /\ out[j].rank \in thrown
       /\ out[j].rank < N
       /\ ((out[j].rank + 1)..N) \subseteq Ranks

C7_Cap ==
  /\ N <= num_papers_to_scrape
  /\ i <= num_papers_to_scrape
  /\ \A j \in 1..Len(out) : out[j].rank <= num_papers_to_scrape
  /\ Succeeded =>
       /\ i = Min(page_nodes, num_papers_to_scrape)
       /\ Ranks \ {0} = 1..Min(page_nodes, num_papers_to_scrape)

\* C7 witness: a page of more than 10 article nodes was scraped to the end.
C7_Witness ==
  /\ Succeeded
  /\ page_nodes > num_papers_to_scrape
  /\ i = num_papers_to_scrape

\* C8: the blocks are in document order: ranks never decrease along the file,
\* the title and link written with rank r are those of the r-th article node,
\* and the last block written (so every block) is of no entry later than the
\* current one, failed entries included.
C8_DocumentOrder ==
  /\ \A j \in 1..Len(out) :
       /\ j < Len(out) => out[j].rank <= out[j + 1].rank
       /\ out[j].kind \in {"title", "link"} => out[j].node = out[j].rank
  /\ out # <<>> => Last(out).rank <= i + 1

\* C8 witness: a failed entry in the middle, blocks of the next entry after it.
C8_Witness ==
  /\ Succeeded
  /\ \E j \in 1..Len(out) : \E k \in (j + 1)..Len(out) :
       /\ out[j].kind = "failure"
       /\ out[j].rank > 1
       /\ out[k].kind = "title"
       /\ out[k].rank = out[j].rank + 1

\* The listing was fetched and parsed, and holds no article node.
ListingEmpty ==
  /\ listingFetches = 1
  /\ page_nodes = 0
  /\ exc \notin {"RequestException", "ParserError"}

\* C9: a listing without article nodes ends the run with the "no papers
\* found" message: the file is never opened or written, no detail request and
\* no translator call is made, and no success message is printed.
C9_NoPapers ==
  ListingEmpty =>
    /\ pc = "done"
    /\ console = <<"no_papers">>
    /\ fileState = "unopened"
    /\ out = <<>>
    /\ detailFetches = 0
    /\ invocations = 0
    /\ tpc = "idle"

\* C9 witness: a run over an empty listing has ended.
C9_Witness == ListingEmpty /\ pc = "done" /\ api_key

\* The listing request failed (network error or error status).
ListingFailed ==
  /\ listingFetches = 1
  /\ exc = "RequestException"
  /\ pc \in {"top_except", "done"}

\* C10: a failed listing request is fatal: the run ends with the failure
\* message of the request handler, the file was never opened or written, and
\* no detail request or translator call is made.
C10_ListingFailureFatal ==
  ListingFailed =>
    /\ pc = "done" => console = <<"fetch_failed">>
    /\ fileState = "unopened"
    /\ out = <<>>
    /\ detailFetches = 0
    /\ invocations = 0
    /\ tpc = "idle"

\* C10 witness: a run whose listing request failed has ended.
C10_Witness == ListingFailed /\ pc = "done" /\ console # <<>>

\* An open, write or close of the output file has raised: the OSError is in
\* flight, or the per-entry handler has recorded it in a failure block.
OutputFailed ==
  \/ exc = "OSError"
  \/ \E j \in 1..Len(out) : out[j].kind = "failure" /\ out[j].err = "OSError"

\* C11: a failed open or write of the output file is fatal: from then on no
\* further entry is processed (the run is in a handler or has ended) and the
\* run does not end with the success message.
C11_OutputFailureFatal ==
  OutputFailed =>
    /\ pc \in {"handler", "top_except", "done"}
    /\ ~Succeeded

\* Empty or made of blanks only.
IsBlank(text) == \A k \in 1..Len(text) : text[k] = SP

\* C12: called with an empty or whitespace-only text the translator returns
\* the fixed "nothing to translate" message with no endpoint call and no
\* sleep, with or without a client.
C12_BlankTextNoCall ==
  (IsBlank(t_text) /\ tpc \notin {"idle", "check"})
    => /\ tpc = "returned"
       /\ t_result = MsgNothing
       /\ calls = 0
       /\ outcomes = <<>>
       /\ sleeps = <<>>

\* C12 witness: a whitespace-only text given with a configured client.
C12_Witness ==
  /\ tpc = "returned"
  /\ t_text = <<SP, SP>>
  /\ t_client = "client"
  /\ t_result = MsgNothing

\* The ISO 8601 week of the day of ordinal n: the week belongs to the year of
\* its Thursday, and its number counts the Thursdays of that year.
IsoThursday(n) == n - ((n - 1) % 7) + 3
Iso8601Week(n) ==
  LET th == Ord2Ymd(IsoThursday(n))
  IN <<th.y, ((IsoThursday(n) - DaysBeforeYear(th.y) - 1) \div 7) + 1>>

\* C13: for any date D the week resolver returns the ISO 8601 (year, week) of
\* D minus 7 days, with the week in 1..53, also across a year boundary
\* (2021-01-04 gives 2020 week 53, 2016-01-08 gives 2015 week 53, 2024-01-07
\* gives 2023 week 52, 2019-01-07 gives 2019 week 1).
C13_PreviousIsoWeek ==
  pc = "week_done" =>
    /\ week_info = Iso8601Week(Ymd2Ord(today) - 7)
    /\ week_info[2] \in 1..53
    /\ today = [y |-> 2021, m |-> 1, d |-> 4] => week_info = <<2020, 53>>
    /\ today = [y |-> 2016, m |-> 1, d |-> 8] => week_info = <<2015, 53>>
    /\ today = [y |-> 2024, m |-> 1, d |-> 7] => week_info = <<2023, 52>>
    /\ today = [y |-> 2019, m |-> 1, d |-> 7] => week_info = <<2019, 1>>

\* C13 witness: a day of the first week of January resolved to week 53 of the
\* year before.
C13_Witness ==
  /\ pc = "week_done"
  /\ today.m = 1
  /\ today.d <= 7
  /\ week_info = <<today.y - 1, 53>>

\* the ranks with a title or a link in the file
TitledRanks ==
  {out[j].rank : j \in {k \in 1..Len(out) : out[k].kind \in {"title", "link"}}}
\* the chunk at j is the last one of its rank
LastOfRank(j) == j = Len(out) \/ out[j + 1].rank # out[j].rank

\* C14 as stated: an entry has its normal block or a failure block, and no
\* rank has both a title/link and a failure block.
C14_Original == TitledRanks \cap FailedRanks = {}

\* C14: each processed entry has exactly one closing record. A rank has at
\* most one title and at most one failure block; the failure block is the last
\* chunk of its rank and may follow the title, link and abstract chunks that
\* were written before the error; the entries that failed are exactly those
\* with a failure block; every finished entry 1..i ends either in its failure
\* block or in the end of a normal block (translation or not-found marker).
C14_OneClosingRecord ==
  /\ \A j \in 1..Len(out) :
       /\ out[j].kind = "failure" =>
            /\ LastOfRank(j)
            /\ out[j].rank \in thrown
            /\ out[j].rank <= i
       /\ out[j].kind = "title" => out[j - 1].rank = out[j].rank - 1
       /\ (out[j].rank \in 1..i /\ LastOfRank(j)) =>
            out[j].kind \in {"failure", "korean", "abstract_not_found"}
  /\ (1..i) \subseteq Ranks
  /\ FailedRanks = thrown \cap (1..i)

\* C14 witness: a finished run whose file has, for one rank, a title, a link
\* and a failure block, and for another rank a whole normal block.
C14_Witness ==
  /\ Succeeded
  /\ TitledRanks \cap FailedRanks # {}
  /\ \E j \in 1..Len(out) : out[j].kind = "korean" /\ out[j].rank \notin FailedRanks

RanksOf(k) == {out[j].rank : j \in {n \in 1..Len(out) : out[n].kind = k}}
\* the number of chunks of kind k in the file
CountOf(k) == Cardinality({n \in 1..Len(out) : out[n].kind = k})
\* the ranks whose detail request failed
DetailFailedRanks ==
  {out[j].rank : j \in {n \in 1..Len(out) :
                          out[n].kind = "failure" /\ out[n].err = "RequestException"}}

\* C16: the translator is invoked at most once per entry, right after the
\* entry's abstract was written, so only for an entry whose detail request
\* succeeded and whose abstract node was found; an entry whose detail page has
\* no abstract node is, once processed, recorded by the "abstract not found"
\* marker, with no translator call, no translation and no failure block.
C16_TranslateOncePerAbstract ==
  /\ CountOf("abstract") = Cardinality(RanksOf("abstract"))
  /\ invocations = CountOf("abstract") - (IF pc = "call_translate" THEN 1 ELSE 0)
  /\ invocations <= detailFetches
  /\ tpc # "idle" => pc = "in_translate"
  /\ pc \in {"call_translate", "in_translate", "write_korean_header", "write_korean"}
       => /\ Rank \in RanksOf("abstract")
          /\ Rank \notin noAbstract
  /\ RanksOf("korean") \subseteq RanksOf("abstract")
  /\ RanksOf("abstract") \cap DetailFailedRanks = {}
  /\ RanksOf("abstract") \cap noAbstract = {}
  /\ \A r \in noAbstract :
       r <= i => r \in RanksOf("abstract_not_found") /\ r \notin FailedRanks

\* C17: no exception leaves scrape_and_translate_papers. An exception is
\* pending only at the per-entry handler or at the top-level handlers; every
\* exception that reaches the top level is taken there and the run ends with
\* its message; an exception raised while an entry is processed (one leaving
\* the translator included) goes to the per-entry handler, and the top level
\* sees only the OSError of the handler's own write.
C17_NoPropagation ==
  /\ pc # "propagated"
  /\ exc # "" => pc \in {"handler", "top_except", "done"}
  /\ pc = "top_except" => TopLevelCatches(exc)
  /\ (pc = "done" /\ exc # "") => console = <<TopLevelMessage(exc)>>
  /\ tpc = "raised" => pc = "in_translate"
  /\ thrown \subseteq 1..(i + 1)
  /\ (Rank \in thrown /\ pc # "handler") =>
       /\ pc \in {"top_except", "done"}
       /\ exc = "OSError"
  /\ (pc = "handler" /\ exc # "OSError") => Rank \in thrown

\* C17 witness: the translator's exception went to the per-entry handler,
\* whose write failed; the run ended at the top level with the generic message.
C17_Witness ==
  /\ pc = "done"
  /\ apiConnErrAttr = "absent"
  /\ Rank \in thrown
  /\ Rank \in RanksOf("abstract")
  /\ exc = "OSError"
  /\ console = <<"unknown_error">>

\* the outcome that ends a run in the present state
Outcome ==
  IF openai_client # "client" THEN "missing_credential"
  ELSE IF exc # "" THEN TopLevelMessage(exc)
  ELSE IF ListingEmpty THEN "no_papers"
  ELSE "success"

\* Some step of the run is enabled (Setup has no guard but its position).
CanStep == pc = "setup" \/ ENABLED Next

\* C18: a run ends with exactly one terminal outcome: nothing of the four is
\* printed before the end, a run that has not ended can take a step, and at
\* the end exactly one message is printed, the one of the run's outcome. The
\* success message is printed only when each entry 1..min(m, 10) of the
\* listing was processed and the file, closed, holds for each of them a block
\* that ends in a translation, a not-found marker or a failure block.
C18_OneTerminalOutcome ==
  /\ pc # "done" => console = <<>> /\ CanStep
  /\ pc = "done" => console = <<Outcome>>
  /\ "success" \in {console[k] : k \in 1..Len(console)} =>
       /\ pc = "done"
       /\ exc = ""
       /\ fileState = "closed"
       /\ N = Min(page_nodes, num_papers_to_scrape)
       /\ N >= 1
       /\ i = N
       /\ (1..N) \subseteq Ranks
       /\ \A j \in 1..Len(out) :
            (out[j].rank >= 1 /\ LastOfRank(j)) =>
              out[j].kind \in {"failure", "korean", "abstract_not_found"}

\* C18 witness: a successful run over three entries, one of them recorded by
\* a failure block, the others by whole normal blocks.
C18_Witness ==
  /\ Succeeded
  /\ N = 3
  /\ Cardinality(FailedRanks) = 1
  /\ Cardinality(RanksOf("korean")) = 2

====
